---- MODULE Spec2Model ----
(***************************************************************************)
(* The real-time device-data relay of MandalaMind: the NeuroSkyService     *)
(* source adapter (server/services/neurosky.ts) and the fan-out hub of     *)
(* registerRoutes.  Every handler runs to completion on one event loop,    *)
(* so each handler is one action.  Handlers are written as operators on a  *)
(* record s of the program state; an action applies one to the current     *)
(* state.                                                                  *)
(***************************************************************************)
EXTENDS Integers, Sequences, FiniteSets, TLC

\* ---------------------------------------------------------------- bounds
\* Objects the process can hold at once: WebSocket objects to the upstream,
\* setTimeout handles, setInterval handles, subscriber connections.
MaxSockets == 2
MaxTimers == 2
MaxIntervals == 2
MaxClients == 3
\* Sessions the store holds as active at once; data listener invocations
\* whose store calls are in flight at once.
MaxSessions == 2
MaxJobs == 2
\* Calls of checkThinkGearConnector under way at once.
MaxProbes == 3
\* clicks of Connect whose timer is still pending; steps of the clock in one
\* connection timeout
MaxUiTimers == 3
MaxTicks == 2

SocketIds == 1..MaxSockets
TimerIds == 1..MaxTimers
IntervalIds == 1..MaxIntervals
WsIds == 1..MaxClients
SessionIds == 1..MaxSessions
ProbeIds == 1..MaxProbes

\* ------------------------------------------------------------- constants
\* null, for a handle (socket, timer); handles are numbered from 1.
Null == 0
\* undefined, for a number a message does not carry.
Undef == -1
\* setTimeout delay of scheduleReconnect, ms.
ReconnectDelay == 5000
\* setTimeout delay of checkThinkGearConnector, ms.
ProbeDelay == 3000
\* the delay of the connection timer of the DeviceStatus component, in ms
UiTimeout == 10000

\* BrainwaveData | null.  The timestamp (Date.now()) is left out: nothing
\* reads it.
NullData == [isNull |-> TRUE, attention |-> 0, meditation |-> 0, signalQuality |-> 0]
Reading(a, m, q) == [isNull |-> FALSE, attention |-> a, meditation |-> m, signalQuality |-> q]

Max(a, b) == IF a >= b THEN a ELSE b
Min(a, b) == IF a <= b THEN a ELSE b
MinOf(S) == CHOOSE x \in S : \A y \in S : x <= y

\* ------------------------------------------------------------- variables
VARIABLES
    \* NeuroSkyService fields
    socket, isConnected, reconnectInterval, currentData, demoInterval,
    isDemoMode, config,
    \* the runtime: readyState of each upstream WebSocket object, the pending
    \* setTimeout handles, the running setInterval handles
    readyState, timeouts, intervals,
    \* registerRoutes: the subscriber set, each subscriber's readyState
    clients, wsReadyState,
    \* the store: the ids of its active sessions; the invocations of the data
    \* listener that wait for a store call, oldest first
    activeSessions, jobs,
    \* what the last handler emitted (EventEmitter events) and sent to each
    \* subscriber
    emitted, sent,
    \* history: the last handler and the object it ran for, the settlement of
    \* the connect() promise that created each socket, whether the caller's
    \* last lifecycle call was disconnect, the most recently observed value of
    \* each Reading field, connection_status messages per subscriber, first
    \* message per subscriber
    lastOp, lastId, promise, callerDisconnected, observed, statusCount, firstMsg,
    \* history: whether the socket the adapter holds has failed or dropped since
    \* the caller's last connect(); the message the last message handler got
    dropped, lastMessage,
    \* history: the listener invocation whose store call settled last, as the
    \* settlement left it
    lastJob,
    \* the upstream endpoint: whether it accepts connections
    accepting,
    \* the last two poor-signal levels put through the quality map, with
    \* their qualities in two-hundredths
    measured,
    \* the calls of checkThinkGearConnector: each one's test socket, timer
    \* and promise
    probes,
    \* the DeviceStatus component: the neuroskyConnected value of its last
    \* render with its isConnecting and connectionError state, the pending
    \* setTimeout callbacks of handleConnect, and the handler that ran last
    ui, uiTimers, uiLast

prog == <<socket, isConnected, reconnectInterval, currentData, demoInterval,
          isDemoMode, config, readyState, timeouts, intervals, clients,
          wsReadyState, activeSessions, jobs, emitted, sent>>
hist == <<lastOp, lastId, promise, callerDisconnected, observed, statusCount, firstMsg,
          dropped, lastMessage, lastJob>>
view == <<ui, uiTimers, uiLast>>
env == <<accepting, measured, probes, view>>
vars == <<prog, hist, env>>

\* The program state as one record; every handler starts with nothing emitted
\* and nothing sent.
State ==
    [socket |-> socket, isConnected |-> isConnected,
     reconnectInterval |-> reconnectInterval, currentData |-> currentData,
     demoInterval |-> demoInterval, isDemoMode |-> isDemoMode, config |-> config,
     readyState |-> readyState, timeouts |-> timeouts, intervals |-> intervals,
     clients |-> clients, wsReadyState |-> wsReadyState,
     activeSessions |-> activeSessions, jobs |-> jobs,
     emitted |-> <<>>, sent |-> [c \in WsIds |-> <<>>]]

SetState(s) ==
    /\ socket' = s.socket
    /\ isConnected' = s.isConnected
    /\ reconnectInterval' = s.reconnectInterval
    /\ currentData' = s.currentData
    /\ demoInterval' = s.demoInterval
    /\ isDemoMode' = s.isDemoMode
    /\ config' = s.config
    /\ readyState' = s.readyState
    /\ timeouts' = s.timeouts
    /\ intervals' = s.intervals
    /\ clients' = s.clients
    /\ wsReadyState' = s.wsReadyState
    /\ activeSessions' = s.activeSessions
    /\ jobs' = s.jobs
    /\ emitted' = s.emitted
    /\ sent' = s.sent

\* ------------------------------------------------------------ the hub
\* A message to a subscriber, and an EventEmitter event.
Msg(t, c, d) == [type |-> t, connected |-> c, data |-> d]
Event(t, d) == [type |-> t, data |-> d]

\* broadcast that forgets the subscribers it finds not open.
broadcastPrunes(s, data) ==
    [s EXCEPT !.sent = [c \in WsIds |->
                IF c \in s.clients /\ s.wsReadyState[c] = "OPEN"
                THEN Append(s.sent[c], data) ELSE s.sent[c]],
              !.clients = {c \in @ : s.wsReadyState[c] = "OPEN"}]

\* broadcast without the readyState test.
broadcastNoReadyCheck(s, data) ==
    [s EXCEPT !.sent = [c \in WsIds |->
        IF c \in s.clients THEN Append(s.sent[c], data) ELSE s.sent[c]]]

\* broadcast(data): one serialization, sent to every subscriber of the set
\* whose readyState is OPEN.
broadcast(s, data) ==
    [s EXCEPT !.sent = [c \in WsIds |->
        IF c \in s.clients /\ s.wsReadyState[c] = "OPEN"
        THEN Append(s.sent[c], data) ELSE s.sent[c]]]

\* The store's answer to getActiveSessions(): the active sessions, by id.
RECURSIVE SessionList(_)
SessionList(S) ==
    IF S = {} THEN <<>> ELSE <<MinOf(S)>> \o SessionList(S \ {MinOf(S)})

\* The argument of addEegData for one session.
Request(sessionId, data) ==
    [sessionId |-> sessionId, attention |-> data.attention,
     meditation |-> data.meditation, signalQuality |-> data.signalQuality,
     rawData |-> data]

\* An invocation of the data listener that waits for a store call: for
\* getActiveSessions() while next = 0, then for the addEegData() of
\* sessions[next].  requests are the addEegData calls it has made.
Job(data, sessions) == [data |-> data, sessions |-> sessions, next |-> 0, requests |-> <<>>]
NoJob == [data |-> NullData, sessions |-> <<>>, next |-> 0, requests |-> <<>>]

RemoveAt(q, j) == [i \in 1..(Len(q) - 1) |-> IF i < j THEN q[i] ELSE q[i + 1]]

\* The data listener after broadcast: it calls getActiveSessions() and waits.
\* With no active session the call's outcome changes nothing, whether it
\* resolves (the loop is empty) or rejects (logged), so it is not followed.
storeEegData(s, data) ==
    IF s.activeSessions = {} THEN s
    ELSE [s EXCEPT !.jobs = Append(@, Job(data, SessionList(s.activeSessions)))]

\* The awaited call of invocation j resolved: the loop makes its next
\* addEegData call, or ends.
storeResolved(s, j) ==
    LET job == s.jobs[j] IN
    IF job.next = Len(job.sessions) THEN [s EXCEPT !.jobs = RemoveAt(@, j)]
    ELSE [s EXCEPT !.jobs[j] =
            [job EXCEPT !.next = @ + 1,
                        !.requests = Append(@, Request(job.sessions[job.next + 1], job.data))]]

\* A variant of the catch block that reports the failure as an adapter error.
storeRejectedEmitsError(s, j) ==
    LET s1 == [s EXCEPT !.jobs = RemoveAt(@, j),
                        !.emitted = Append(@, Event("error", NullData))]
    IN  broadcast(s1, Msg("neurosky_error", FALSE, NullData))

\* The awaited call of invocation j rejected: the catch block logs and the
\* listener ends.
storeRejected(s, j) == [s EXCEPT !.jobs = RemoveAt(@, j)]

\* this.emit(type, data): the listeners of registerRoutes run synchronously.
\* blink and rawEeg have no listener.
emit(s, type, data) ==
    LET s1 == [s EXCEPT !.emitted = Append(@, Event(type, data))] IN
    CASE type = "connected" -> broadcast(s1, Msg("neurosky_connected", FALSE, NullData))
      [] type = "disconnected" -> broadcast(s1, Msg("neurosky_disconnected", FALSE, NullData))
      [] type = "data" -> storeEegData(broadcast(s1, Msg("eeg_data", FALSE, data)), data)
      [] type = "error" -> broadcast(s1, Msg("neurosky_error", FALSE, NullData))
      [] OTHER -> s1

\* ------------------------------------------------------------ the adapter
\* A handle for a new object: one no live object and no field holds.
FreeSockets(s) ==
    {k \in SocketIds : s.readyState[k] = "CLOSED" /\ k # s.socket}
FreeTimers(s) == TimerIds \ {x.id : x \in s.timeouts}
FreeIntervals(s) == IntervalIds \ s.intervals

\* WebSocket.close(): a connecting socket aborts its handshake (error and
\* close follow), an open one starts the closing handshake, else nothing.
socketClose(s, k) ==
    [s EXCEPT !.readyState[k] =
        CASE @ = "CONNECTING" -> "ABORTING"
          [] @ = "OPEN" -> "CLOSING"
          [] OTHER -> @]

\* timeouts holds the pending setTimeout calls, each with its handle and delay.
clearTimeout(s, t) == [s EXCEPT !.timeouts = {x \in @ : x.id # t}]
clearInterval(s, i) == [s EXCEPT !.intervals = @ \ {i}]

\* A variant that starts the generator without announcing it.
startDemoModeSilent(s) ==
    LET s1 == [s EXCEPT !.isConnected = TRUE]
        i == MinOf(FreeIntervals(s1))
    IN  [s1 EXCEPT !.demoInterval = i, !.intervals = @ \cup {i}]

startDemoMode(s) ==
    LET s1 == emit([s EXCEPT !.isConnected = TRUE], "connected", NullData)
        i == MinOf(FreeIntervals(s1))
    IN  [s1 EXCEPT !.demoInterval = i, !.intervals = @ \cup {i}]

\* connect(): the demo path, or a new WebSocket whose handlers are the
\* onOpen, onMessage, onClose and onError below.  Nothing awaits the
\* handshake.
connect(s) ==
    IF s.isDemoMode THEN startDemoMode(s)
    ELSE LET k == MinOf(FreeSockets(s)) IN
         [s EXCEPT !.socket = k, !.readyState[k] = "CONNECTING"]

\* The async function's promise: it rejects only if the try block throws.
connectPromise(threw) == IF threw THEN "rejected" ELSE "resolved"

\* The bound on live objects: connect() needs a handle to give out.
CanConnect(s) ==
    IF s.isDemoMode THEN FreeIntervals(s) # {} ELSE FreeSockets(s) # {}

\* scheduleReconnect without the clearTimeout of the pending timer.
\* A variant that gives up after the first attempt.
scheduleReconnectOnce(s) ==
    IF ~s.config.autoConnect \/ s.reconnectInterval # Null THEN s
    ELSE LET t == MinOf(FreeTimers(s)) IN
         [s EXCEPT !.reconnectInterval = t,
                   !.timeouts = @ \cup {[id |-> t, delay |-> ReconnectDelay]}]

scheduleReconnectNoClear(s) ==
    IF s.config.autoConnect
    THEN LET t == MinOf(FreeTimers(s)) IN
         [s EXCEPT !.reconnectInterval = t,
                   !.timeouts = @ \cup {[id |-> t, delay |-> ReconnectDelay]}]
    ELSE s

scheduleReconnect(s) ==
    LET s1 == IF s.reconnectInterval # Null
              THEN clearTimeout(s, s.reconnectInterval) ELSE s
    IN  IF s1.config.autoConnect
        THEN LET t == MinOf(FreeTimers(s1)) IN
             [s1 EXCEPT !.reconnectInterval = t,
                        !.timeouts = @ \cup {[id |-> t, delay |-> ReconnectDelay]}]
        ELSE s1

\* disconnect without this.socket = null.
disconnectKeepsSocket(s) ==
    LET s1 == IF s.reconnectInterval # Null
              THEN [clearTimeout(s, s.reconnectInterval) EXCEPT !.reconnectInterval = Null]
              ELSE s
        s2 == IF s1.demoInterval # Null
              THEN [clearInterval(s1, s1.demoInterval) EXCEPT !.demoInterval = Null]
              ELSE s1
        s3 == IF s2.socket # Null THEN socketClose(s2, s2.socket) ELSE s2
    IN  [s3 EXCEPT !.isConnected = FALSE, !.isDemoMode = FALSE]

\* A variant that leaves the runtime demo flag as it is.
disconnectKeepsDemoMode(s) ==
    LET s1 == IF s.reconnectInterval # Null
              THEN [clearTimeout(s, s.reconnectInterval) EXCEPT !.reconnectInterval = Null]
              ELSE s
        s2 == IF s1.demoInterval # Null
              THEN [clearInterval(s1, s1.demoInterval) EXCEPT !.demoInterval = Null]
              ELSE s1
        s3 == IF s2.socket # Null
              THEN [socketClose(s2, s2.socket) EXCEPT !.socket = Null]
              ELSE s2
    IN  [s3 EXCEPT !.isConnected = FALSE]

disconnect(s) ==
    LET s1 == IF s.reconnectInterval # Null
              THEN [clearTimeout(s, s.reconnectInterval) EXCEPT !.reconnectInterval = Null]
              ELSE s
        s2 == IF s1.demoInterval # Null
              THEN [clearInterval(s1, s1.demoInterval) EXCEPT !.demoInterval = Null]
              ELSE s1
        s3 == IF s2.socket # Null
              THEN [socketClose(s2, s2.socket) EXCEPT !.socket = Null]
              ELSE s2
    IN  [s3 EXCEPT !.isConnected = FALSE, !.isDemoMode = FALSE]

enableDemoMode(s) == [s EXCEPT !.isDemoMode = TRUE, !.config.demoMode = TRUE]

disableDemoMode(s) ==
    LET s1 == [s EXCEPT !.isDemoMode = FALSE, !.config.demoMode = FALSE]
        s2 == IF s1.demoInterval # Null
              THEN [clearInterval(s1, s1.demoInterval) EXCEPT !.demoInterval = Null]
              ELSE s1
    IN  disconnect(s2)

\* socket.on('open'): the config is sent on this.socket if that is open;
\* the upstream's state is not modelled.
onOpen(s) == emit([s EXCEPT !.isConnected = TRUE], "connected", NullData)

\* socket.on('close')
onClose(s) ==
    LET s1 == emit([s EXCEPT !.isConnected = FALSE], "disconnected", NullData) IN
    IF s1.config.autoConnect THEN scheduleReconnect(s1) ELSE s1

\* socket.on('error')
onError(s) == emit(s, "error", NullData)

\* The poor-signal levels of the source scale.
PoorSignalLevels == 0..200

\* A variant that divides in integers.
signalQualityFloored(level) == 200 * Max(0, 100 - ((level * 100) \div 200))

\* Math.max(0, 100 - (level * 100 / 200)) in two-hundredths: the division
\* is exact in the code, so the value is kept as a fraction over 200.
signalQualityTimes200(level) == Max(0, 100 * 200 - level * 100)

\* The signal quality of a Reading; the levels the model's messages carry are
\* even, so it is a whole number.
signalQualityOf(level) == signalQualityTimes200(level) \div 200

\* x || y on numbers: 0 and undefined are falsy.
OrElse(x, y) == IF x # Undef /\ x # 0 THEN x ELSE y

\* handleThinkGearMessage(message)
handleThinkGearMessage(s, message) ==
    LET dAttention == IF message.hasESense THEN OrElse(message.attention, 0) ELSE Undef
        dMeditation == IF message.hasESense THEN OrElse(message.meditation, 0) ELSE Undef
        dQuality == IF message.poorSignalLevel # Undef
                    THEN signalQualityOf(message.poorSignalLevel) ELSE Undef
        cur == s.currentData
        data == Reading(OrElse(dAttention, OrElse(cur.attention, 0)),
                        OrElse(dMeditation, OrElse(cur.meditation, 0)),
                        OrElse(dQuality, OrElse(cur.signalQuality, 0)))
        s1 == IF dAttention # Undef \/ dMeditation # Undef \/ dQuality # Undef
              THEN emit([s EXCEPT !.currentData = data], "data", data)
              ELSE s
        s2 == IF OrElse(message.blinkStrength, 0) # 0
              THEN emit(s1, "blink", NullData) ELSE s1
    IN  IF OrElse(message.rawEeg, 0) # 0 THEN emit(s2, "rawEeg", NullData) ELSE s2

\* A variant that reports a message it cannot read as a connection error.
onMessageReportsError(s, message) ==
    IF message.malformed THEN emit(s, "error", NullData)
    ELSE handleThinkGearMessage(s, message)

\* socket.on('message'): a message JSON.parse or the handler throws on is
\* logged and dropped.
onMessage(s, message) ==
    IF message.malformed THEN s ELSE handleThinkGearMessage(s, message)

\* Math.round of a value given in thousandths.
Round(x) == (x + 500) \div 1000

\* The generator's sums before clamping.  Sines, cosines and Math.random()
\* values are given in thousandths: s1, s2, s3 in -1000..1000, r in 0..999.
roundedAttention(s1, s2, s3, r) ==
    Round(30000 + 30 * s1 + 15 * s2 + 10 * (r - 500) + 5 * s3)
roundedMeditation(c1, c2, c3, r) ==
    Round(25000 + 35 * c1 + 20 * c2 + 8 * (r - 500) + 7 * c3)
roundedSignalQuality(s1, r) ==
    Round(85000 + 10 * s1 + 5 * (r - 500))

\* A variant without the clamps.
generateDemoDataNoClamp(s, rawA, rawM, rawQ, blink) ==
    LET data == Reading(rawA, rawM, rawQ)
        s1 == emit([s EXCEPT !.currentData = data], "data", data)
    IN  IF blink THEN emit(s1, "blink", NullData) ELSE s1

\* generateDemoData(): rawA, rawM, rawQ are the rounded sums of the
\* sinusoids and the jitter.  The blink is emitted with probability 0.02.
generateDemoData(s, rawA, rawM, rawQ, blink) ==
    LET data == Reading(Max(0, Min(100, rawA)), Max(0, Min(100, rawM)),
                        Max(60, Min(100, rawQ)))
        s1 == emit([s EXCEPT !.currentData = data], "data", data)
    IN  IF blink THEN emit(s1, "blink", NullData) ELSE s1

\* The status message with connected taken from the socket field.
onWsConnectionFromSocket(s, c) ==
    LET s1 == [s EXCEPT !.clients = @ \cup {c}] IN
    IF s1.wsReadyState[c] = "OPEN"
    THEN [s1 EXCEPT !.sent[c] = Append(@, Msg("connection_status", s1.socket # Null, s1.currentData))]
    ELSE s1

\* wss.on('connection'): the subscriber joins the set and is sent the status.
onWsConnection(s, c) ==
    LET s1 == [s EXCEPT !.clients = @ \cup {c}] IN
    IF s1.wsReadyState[c] = "OPEN"
    THEN [s1 EXCEPT !.sent[c] = Append(@, Msg("connection_status", s1.isConnected, s1.currentData))]
    ELSE s1

\* ws.on('close') and ws.on('error') of a subscriber
onWsClose(s, c) == [s EXCEPT !.clients = @ \ {c}]
onWsError(s, c) == [s EXCEPT !.clients = @ \ {c}]

\* ------------------------------------------------------------ the probe
\* One call of checkThinkGearConnector: the readyState of testSocket, the
\* pending setTimeout (its delay, or Null), the promise ("none" before the
\* call, then "pending", "true", "false" or "rejected"), and, as history,
\* which of open, error, timeout came first and how often resolve was called.
NoProbe == [readyState |-> "CLOSED", timeout |-> Null, promise |-> "none",
            first |-> "none", resolves |-> 0]

\* resolve(value): settles a pending promise; a later call changes nothing.
resolve(q, value) ==
    [q EXCEPT !.promise = IF @ = "pending" THEN value ELSE @,
              !.resolves = Min(2, @ + 1)]

\* testSocket.close()
testSocketClose(q) ==
    [q EXCEPT !.readyState =
        CASE @ = "CONNECTING" -> "ABORTING"
          [] @ = "OPEN" -> "CLOSING"
          [] OTHER -> @]

First(q, event) == [q EXCEPT !.first = IF @ = "none" THEN event ELSE @]

\* new WebSocket(...) and the promise with its timer; when the constructor
\* throws, the catch returns false.
checkThinkGearConnector(threw) ==
    IF threw THEN [NoProbe EXCEPT !.promise = "false", !.first = "threw"]
    ELSE [NoProbe EXCEPT !.readyState = "CONNECTING", !.timeout = ProbeDelay,
                         !.promise = "pending"]

\* The setTimeout callback.
onProbeTimeout(q) == resolve(testSocketClose([q EXCEPT !.timeout = Null]), "false")

\* A variant of the open handler that leaves the test socket open.
onProbeOpenKeepsSocket(q) == resolve([q EXCEPT !.timeout = Null], "true")

\* testSocket.on('open')
onProbeOpen(q) == resolve(testSocketClose([q EXCEPT !.timeout = Null]), "true")

\* testSocket.on('error')
onProbeError(q) == resolve([q EXCEPT !.timeout = Null], "false")

\* ------------------------------------------------------------- inputs
\* Inbound messages: eSense present or not, each number absent (Undef), 0 or
\* a positive value; a malformed frame.
NoMessage ==
    [malformed |-> FALSE, hasESense |-> FALSE, attention |-> Undef, meditation |-> Undef,
     poorSignalLevel |-> Undef, blinkStrength |-> Undef, rawEeg |-> Undef]
Messages ==
    {[NoMessage EXCEPT !.hasESense = TRUE, !.attention = a, !.meditation = m] :
        a \in {Undef, 0, 40}, m \in {Undef, 0, 70}}
    \cup {[NoMessage EXCEPT !.poorSignalLevel = l] : l \in {0, 200}}
    \cup {[NoMessage EXCEPT !.hasESense = TRUE, !.attention = 40, !.meditation = 70,
                            !.poorSignalLevel = 100]}
    \cup {[NoMessage EXCEPT !.blinkStrength = 55], [NoMessage EXCEPT !.rawEeg = 12],
          NoMessage, [NoMessage EXCEPT !.malformed = TRUE]}
    \cup {[NoMessage EXCEPT !.rawEeg = 0],
          [NoMessage EXCEPT !.hasESense = TRUE, !.attention = 40, !.blinkStrength = 55,
                            !.rawEeg = 12]}

\* What one tick reads: the sines and cosines of the clock and the three
\* Math.random() values, in thousandths.
DemoInput(a1, a2, a3, ar, m1, m2, m3, mr, q1, qr) ==
    [a1 |-> a1, a2 |-> a2, a3 |-> a3, ar |-> ar, m1 |-> m1, m2 |-> m2, m3 |-> m3,
     mr |-> mr, q1 |-> q1, qr |-> qr]
DemoSums(x) ==
    <<roundedAttention(x.a1, x.a2, x.a3, x.ar), roundedMeditation(x.m1, x.m2, x.m3, x.mr),
      roundedSignalQuality(x.q1, x.qr)>>

\* Every sine and cosine at an extreme, every random value at an end of
\* [0, 1); and the middle of everything.
Sines == {-1000, 1000}
Randoms == {0, 999}
DemoInputs ==
    {DemoInput(a1, a2, a3, ar, m1, m2, m3, mr, q1, qr) :
        a1 \in Sines, a2 \in Sines, a3 \in Sines, ar \in Randoms,
        m1 \in Sines, m2 \in Sines, m3 \in Sines, mr \in Randoms,
        q1 \in Sines, qr \in Randoms}
    \cup {DemoInput(0, 0, 0, 500, 0, 0, 0, 500, 0, 500)}

\* Rounded generator sums before clamping: the lowest attention with the
\* highest meditation and lowest quality, and the middle values.
DemoRaw ==
    {DemoSums(DemoInput(-1000, -1000, -1000, 0, 1000, 1000, 1000, 999, -1000, 0)),
     DemoSums(DemoInput(0, 0, 0, 500, 0, 0, 0, 500, 0, 500))}

\* ------------------------------------------------------------- history
CountStatus(q) == Cardinality({i \in DOMAIN q : q[i].type = "connection_status"})

\* The history of a subscriber starts when it connects: its handle is that
\* of no earlier subscriber once the close event of that one was handled.
HubHistory ==
    /\ statusCount' = [c \in WsIds |->
          IF wsReadyState'[c] = "CLOSED" THEN 0
          ELSE Min(2, statusCount[c] + CountStatus(sent'[c]))]
    /\ firstMsg' = [c \in WsIds |->
          IF wsReadyState'[c] = "CLOSED" THEN "none"
          ELSE IF firstMsg[c] = "none"
               THEN (IF sent'[c] # <<>> THEN sent'[c][1].type ELSE "none")
               ELSE firstMsg[c]]

\* The values a message carries for each Reading field.
Observe(o, message) ==
    IF message.malformed THEN o ELSE
    [attention |-> IF message.hasESense /\ message.attention # Undef
                   THEN message.attention ELSE o.attention,
     meditation |-> IF message.hasESense /\ message.meditation # Undef
                    THEN message.meditation ELSE o.meditation,
     signalQuality |-> IF message.poorSignalLevel # Undef
                       THEN signalQualityOf(message.poorSignalLevel) ELSE o.signalQuality]

\* A disconnect() call right after another one is told apart.
DisconnectOps == {"disconnect", "disconnectAgain"}
DisconnectOp == IF lastOp \in DisconnectOps THEN "disconnectAgain" ELSE "disconnect"

\* A failure or drop is the close event of the socket the adapter holds; the
\* caller's connect() starts anew.
Dropped(op, id) ==
    CASE op = "connect" -> FALSE
      [] op \in {"close", "connectFail"} /\ id = socket -> TRUE
      [] OTHER -> dropped

\* A handler ran: op for the object id, with the inbound message if it is the
\* message handler.
StepJob(s, op, id, message, job) ==
    /\ SetState(s)
    /\ lastOp' = op
    /\ lastId' = id
    /\ HubHistory
    /\ dropped' = Dropped(op, id)
    /\ lastMessage' = message
    /\ lastJob' = job
    /\ UNCHANGED env

StepOn(s, op, id, message) == StepJob(s, op, id, message, NoJob)

Step(s, op, id) == StepOn(s, op, id, NoMessage)

\* ------------------------------------------------- the DeviceStatus view
\* The component after its first render: useState(false), useState('').
NoUi == [neuroskyConnected |-> FALSE, isConnecting |-> FALSE, connectionError |-> ""]

TimeoutError == "Connection timeout"

\* The dependency list of the effect.
deps(u) == <<u.neuroskyConnected, u.isConnecting>>

\* The effect body: a connected adapter ends the attempt and clears the error.
effect(u) ==
    IF u.neuroskyConnected
    THEN [u EXCEPT !.isConnecting = FALSE, !.connectionError = ""]
    ELSE u

\* useEffect: the body runs after a render whose dependencies differ from
\* those of the render before.
useEffect(u, before) == IF deps(u) # before THEN effect(u) ELSE u

\* A render after a handler changed u, then the render its effect causes.
render(u, before) == useEffect(useEffect(u, before), deps(u))

\* handleConnect, the state it sets; the action adds its timer.
handleConnect(u) == [u EXCEPT !.isConnecting = TRUE, !.connectionError = ""]

\* The timer callback of handleConnect: neuroskyConnected is the value of the
\* render in which Connect was clicked.
onConnectTimeout(u, timer) ==
    IF ~timer.neuroskyConnected
    THEN [u EXCEPT !.isConnecting = FALSE, !.connectionError = TimeoutError]
    ELSE u

handleDisconnect(u) == [u EXCEPT !.connectionError = ""]

\* ------------------------------------------------------------- actions
Init ==
    /\ socket = Null
    /\ isConnected = FALSE
    /\ reconnectInterval = Null
    /\ currentData = NullData
    /\ demoInterval = Null
    /\ config \in [autoConnect : BOOLEAN, demoMode : BOOLEAN]
    /\ isDemoMode = config.demoMode
    /\ readyState = [k \in SocketIds |-> "CLOSED"]
    /\ timeouts = {}
    /\ intervals = {}
    /\ clients = {}
    /\ wsReadyState = [c \in WsIds |-> "CLOSED"]
    /\ emitted = <<>>
    /\ sent = [c \in WsIds |-> <<>>]
    /\ lastOp = "init"
    /\ lastId = Null
    /\ promise = [k \in SocketIds |-> "none"]
    /\ callerDisconnected = FALSE
    /\ observed = [attention |-> 0, meditation |-> 0, signalQuality |-> 0]
    /\ statusCount = [c \in WsIds |-> 0]
    /\ firstMsg = [c \in WsIds |-> "none"]
    /\ dropped = FALSE
    /\ lastMessage = NoMessage
    /\ activeSessions = {}
    /\ jobs = <<>>
    /\ lastJob = NoJob
    /\ accepting = TRUE
    /\ measured = [level |-> 0, quality |-> signalQualityTimes200(0),
                   prevLevel |-> 0, prevQuality |-> signalQualityTimes200(0)]
    /\ probes = [p \in ProbeIds |-> NoProbe]
    /\ ui = NoUi
    /\ uiTimers = <<>>
    /\ uiLast = "init"

\* The promise of a connect() call that made a socket is kept with the socket.
Promised(s) ==
    IF s.socket # socket
    THEN [promise EXCEPT ![s.socket] = connectPromise(FALSE)] ELSE promise

\* POST /api/neurosky/connect
Connect ==
    /\ CanConnect(State)
    /\ LET s == connect(State) IN
        /\ Step(s, "connect", s.socket)
        /\ promise' = Promised(s)
    /\ callerDisconnected' = FALSE
    /\ UNCHANGED observed

\* POST /api/neurosky/disconnect
Disconnect ==
    /\ Step(disconnect(State), DisconnectOp, socket)
    /\ callerDisconnected' = TRUE
    /\ UNCHANGED <<promise, observed>>

\* POST /api/neurosky/demo/enable
EnableDemoMode ==
    /\ Step(enableDemoMode(State), "enableDemoMode", Null)
    /\ UNCHANGED <<promise, callerDisconnected, observed>>

\* POST /api/neurosky/demo/disable
DisableDemoMode ==
    /\ Step(disableDemoMode(State), "disableDemoMode", socket)
    /\ UNCHANGED <<promise, callerDisconnected, observed>>

\* The upstream handshake completes.
SocketOpen(k) ==
    /\ readyState[k] = "CONNECTING"
    /\ Step(onOpen([State EXCEPT !.readyState[k] = "OPEN"]), "open", k)
    /\ UNCHANGED <<promise, callerDisconnected, observed>>

\* A frame arrives; frames still arrive while the closing handshake runs.
SocketMessage(k, message) ==
    /\ readyState[k] \in {"OPEN", "CLOSING"}
    /\ Len(jobs) < MaxJobs
    /\ StepOn(onMessage(State, message), "message", k, message)
    /\ observed' = Observe(observed, message)
    /\ UNCHANGED <<promise, callerDisconnected>>

\* The handshake fails, or was aborted by close(): error, then close.
SocketConnectFail(k) ==
    /\ readyState[k] \in {"CONNECTING", "ABORTING"}
    /\ Cardinality(timeouts) < MaxTimers
    /\ Step(onClose(onError([State EXCEPT !.readyState[k] = "CLOSED"])),
            IF readyState[k] = "CONNECTING" THEN "connectFail" ELSE "aborted", k)
    /\ UNCHANGED <<promise, callerDisconnected, observed>>

\* An open socket errors; its close follows.
SocketError(k) ==
    /\ readyState[k] = "OPEN"
    /\ Step(onError([State EXCEPT !.readyState[k] = "CLOSING"]), "error", k)
    /\ UNCHANGED <<promise, callerDisconnected, observed>>

\* The connection is gone.
SocketClose(k) ==
    /\ readyState[k] \in {"OPEN", "CLOSING"}
    /\ Cardinality(timeouts) < MaxTimers
    /\ Step(onClose([State EXCEPT !.readyState[k] = "CLOSED"]), "close", k)
    /\ UNCHANGED <<promise, callerDisconnected, observed>>

\* The setTimeout callback of scheduleReconnect.
ReconnectFires(t) ==
    /\ t \in timeouts
    /\ LET s0 == clearTimeout(State, t.id) IN
        /\ CanConnect(s0)
        /\ LET s == connect(s0) IN
            /\ Step(s, "reconnect", t.id)
            /\ promise' = Promised(s)
    /\ UNCHANGED <<callerDisconnected, observed>>

\* The setInterval callback of startDemoMode.
DemoTick(i, raw, blink) ==
    /\ i \in intervals
    /\ Len(jobs) < MaxJobs
    /\ LET s == generateDemoData(State, raw[1], raw[2], raw[3], blink) IN
        /\ Step(s, "tick", i)
        /\ observed' = [attention |-> s.currentData.attention,
                        meditation |-> s.currentData.meditation,
                        signalQuality |-> s.currentData.signalQuality]
    /\ UNCHANGED <<promise, callerDisconnected>>

\* A subscriber connects to /ws.
WsConnection(c) ==
    /\ wsReadyState[c] = "CLOSED"
    /\ c \notin clients
    /\ Step(onWsConnection([State EXCEPT !.wsReadyState[c] = "OPEN"], c), "wsConnection", c)
    /\ UNCHANGED <<promise, callerDisconnected, observed>>

\* A subscriber's control message.
WsMessage(c, type) ==
    /\ wsReadyState[c] = "OPEN"
    /\ \/ /\ type = "connect_neurosky"
          /\ CanConnect(State)
          /\ LET s == connect(State) IN
              /\ Step(s, "connect", s.socket)
              /\ promise' = Promised(s)
          /\ callerDisconnected' = FALSE
       \/ /\ type = "disconnect_neurosky"
          /\ Step(disconnect(State), DisconnectOp, socket)
          /\ callerDisconnected' = TRUE
          /\ UNCHANGED promise
    /\ UNCHANGED observed

\* A subscriber's connection starts to close: it is no longer OPEN.
WsClosing(c) ==
    /\ wsReadyState[c] = "OPEN"
    /\ Step([State EXCEPT !.wsReadyState[c] = "CLOSING"], "wsClosing", c)
    /\ UNCHANGED <<promise, callerDisconnected, observed>>

\* ws.on('error'): the close event follows.
WsError(c) ==
    /\ wsReadyState[c] = "OPEN"
    /\ Step(onWsError([State EXCEPT !.wsReadyState[c] = "CLOSING"], c), "wsError", c)
    /\ UNCHANGED <<promise, callerDisconnected, observed>>

\* ws.on('close')
WsClose(c) ==
    /\ wsReadyState[c] \in {"OPEN", "CLOSING"}
    /\ Step(onWsClose([State EXCEPT !.wsReadyState[c] = "CLOSED"], c), "wsClose", c)
    /\ UNCHANGED <<promise, callerDisconnected, observed>>

\* The adapter's lifecycle, with any configuration, one kind of upstream
\* message and one generator output; no subscriber is connected.
LifecycleMessages == {[NoMessage EXCEPT !.poorSignalLevel = 100]}
\* A frame that is not JSON, or is the JSON null.
MalformedMessage == [NoMessage EXCEPT !.malformed = TRUE]
LifecycleRaw == {DemoSums(DemoInput(0, 0, 0, 500, 0, 0, 0, 500, 0, 500))}

Next ==
    \/ Connect
    \/ Disconnect
    \/ EnableDemoMode
    \/ DisableDemoMode
    \/ \E k \in SocketIds : SocketOpen(k)
    \/ \E k \in SocketIds, message \in LifecycleMessages : SocketMessage(k, message)
    \/ \E k \in SocketIds : SocketConnectFail(k)
    \/ \E k \in SocketIds : SocketError(k)
    \/ \E k \in SocketIds : SocketClose(k)
    \/ \E t \in timeouts : ReconnectFires(t)
    \/ \E i \in IntervalIds, raw \in LifecycleRaw : DemoTick(i, raw, FALSE)

Spec == Init /\ [][Next]_vars

\* The upstream endpoint starts or stops accepting connections.
UpstreamChange ==
    /\ SetState(State)
    /\ lastOp' = "upstream"
    /\ lastId' = Null
    /\ HubHistory
    /\ lastMessage' = NoMessage
    /\ lastJob' = NoJob
    /\ accepting' = ~accepting
    /\ UNCHANGED <<promise, callerDisconnected, observed, dropped, measured, probes, view>>

\* An adapter built with autoConnect, connected once by its caller and never
\* disconnected, against an upstream that accepts or refuses handshakes and
\* drops connections.  The event loop runs a pending timer callback, and a
\* handshake comes to its end: it completes while the upstream accepts and
\* fails while it refuses.
LiveInit == Init /\ config = [autoConnect |-> TRUE, demoMode |-> FALSE]

LiveNext ==
    \/ socket = Null /\ Connect
    \/ \E k \in SocketIds : accepting /\ SocketOpen(k)
    \/ \E k \in SocketIds : ~accepting /\ SocketConnectFail(k)
    \/ \E k \in SocketIds, message \in LifecycleMessages \cup {MalformedMessage} :
             SocketMessage(k, message)
    \/ \E k \in SocketIds : SocketError(k)
    \/ \E k \in SocketIds : SocketClose(k)
    \/ \E t \in timeouts : ReconnectFires(t)
    \/ UpstreamChange

LiveFair ==
    /\ WF_vars(\E t \in timeouts : ReconnectFires(t))
    /\ WF_vars(\E k \in SocketIds : accepting /\ SocketOpen(k))
    /\ WF_vars(\E k \in SocketIds : ~accepting /\ SocketConnectFail(k))

LiveSpec == LiveInit /\ [][LiveNext]_vars /\ LiveFair

\* The relay as registerRoutes builds it: new NeuroSkyService({autoConnect:
\* false}), with subscribers coming and going.  The adapter is driven over
\* its live path, which emits every event the hub relays (connected, data,
\* error, disconnected); the hub does not read where an event comes from.
HubInit == Init /\ config = [autoConnect |-> FALSE, demoMode |-> FALSE]

\* The caller connects while no upstream is connecting, open or generating.
Idle ==
    /\ \A k \in SocketIds : readyState[k] \notin {"CONNECTING", "OPEN"}
    /\ intervals = {}

HubNext ==
    \/ Idle /\ Connect
    \/ Disconnect
    \/ \E k \in SocketIds : SocketOpen(k)
    \/ \E k \in SocketIds, message \in LifecycleMessages : SocketMessage(k, message)
    \/ \E k \in SocketIds : SocketConnectFail(k)
    \/ \E k \in SocketIds : SocketError(k)
    \/ \E k \in SocketIds : SocketClose(k)
    \/ \E c \in WsIds : WsConnection(c)
    \/ \E c \in WsIds : Idle /\ WsMessage(c, "connect_neurosky")
    \/ \E c \in WsIds : WsMessage(c, "disconnect_neurosky")
    \/ \E c \in WsIds : WsClosing(c)
    \/ \E c \in WsIds : WsError(c)
    \/ \E c \in WsIds : WsClose(c)

HubSpec == HubInit /\ [][HubNext]_vars

\* Message handling on one live connection and the generator, with every
\* kind of message.
DataInit == HubInit

DataNext ==
    \/ Connect
    \/ EnableDemoMode
    \/ DisableDemoMode
    \/ \E k \in SocketIds : SocketOpen(k)
    \/ \E k \in SocketIds, message \in Messages : SocketMessage(k, message)
    \/ \E i \in IntervalIds, raw \in DemoRaw, blink \in BOOLEAN : DemoTick(i, raw, blink)

DataSpec == DataInit /\ [][DataNext]_vars

\* The relay in demo mode: the caller switches the generator on and off and
\* connects while demo mode is on; subscribers come and go.
DemoInit == HubInit

DemoNext ==
    \/ EnableDemoMode
    \/ DisableDemoMode
    \/ isDemoMode /\ Idle /\ Connect
    \/ Disconnect
    \/ \E i \in IntervalIds, raw \in DemoRaw, blink \in BOOLEAN : DemoTick(i, raw, blink)
    \/ \E c \in WsIds : WsConnection(c)
    \/ \E c \in WsIds : WsClosing(c)
    \/ \E c \in WsIds : WsError(c)
    \/ \E c \in WsIds : WsClose(c)

DemoSpec == DemoInit /\ [][DemoNext]_vars

\* A session becomes active in the store, or stops being active.  Sessions
\* are told apart by id only, so the active ones are numbered 1..n.
SessionStart(i) ==
    /\ i \notin activeSessions
    /\ i = MinOf(SessionIds \ activeSessions)
    /\ Step([State EXCEPT !.activeSessions = @ \cup {i}], "sessionStart", i)
    /\ UNCHANGED <<promise, callerDisconnected, observed>>

SessionEnd(i) ==
    /\ i \in activeSessions
    /\ \A x \in activeSessions : x <= i
    /\ Step([State EXCEPT !.activeSessions = @ \ {i}], "sessionEnd", i)
    /\ UNCHANGED <<promise, callerDisconnected, observed>>

\* The store call a listener invocation waits for resolves, or rejects.
StoreResolves(j) ==
    /\ j \in DOMAIN jobs
    /\ LET s == storeResolved(State, j)
           ended == jobs[j].next = Len(jobs[j].sessions)
       IN  StepJob(s, CASE ended -> "storeDone"
                        [] jobs[j].next = 0 -> "queryResolved"
                        [] OTHER -> "addResolved",
                   j, NoMessage, IF ended THEN jobs[j] ELSE s.jobs[j])
    /\ UNCHANGED <<promise, callerDisconnected, observed>>

StoreRejects(j) ==
    /\ j \in DOMAIN jobs
    /\ StepJob(storeRejected(State, j),
               IF jobs[j].next = 0 THEN "queryRejected" ELSE "addRejected", j,
               NoMessage, jobs[j])
    /\ UNCHANGED <<promise, callerDisconnected, observed>>

\* The relay with a store: sessions start and end, the adapter is connected
\* over its live path and delivers Readings, subscribers connect, and the
\* store calls of the data listener resolve or reject in any order.
PersistInit == HubInit

PersistNext ==
    \/ Idle /\ Connect
    \/ \E k \in SocketIds : SocketOpen(k)
    \/ \E k \in SocketIds, message \in LifecycleMessages : SocketMessage(k, message)
    \/ \E c \in WsIds \ clients : c = MinOf(WsIds \ clients) /\ WsConnection(c)
    \/ \E c \in WsIds : WsClosing(c)
    \/ \E i \in SessionIds : SessionStart(i)
    \/ \E i \in SessionIds : SessionEnd(i)
    \/ \E j \in 1..MaxJobs : StoreResolves(j)
    \/ \E j \in 1..MaxJobs : StoreRejects(j)

PersistSpec == PersistInit /\ [][PersistNext]_vars

\* GET /api/neurosky/check: a call of checkThinkGearConnector starts.
ProbeStart(p, threw) ==
    /\ probes[p].promise = "none"
    /\ probes' = [probes EXCEPT ![p] = checkThinkGearConnector(threw)]
    /\ UNCHANGED <<prog, hist, accepting, measured, view>>

\* The timer of a probe fires.
ProbeTimeout(p) ==
    /\ probes[p].timeout # Null
    /\ probes' = [probes EXCEPT ![p] = onProbeTimeout(First(@, "timeout"))]
    /\ UNCHANGED <<prog, hist, accepting, measured, view>>

\* The handshake of a test socket completes.
ProbeOpen(p) ==
    /\ probes[p].readyState = "CONNECTING"
    /\ probes' = [probes EXCEPT ![p] =
                    onProbeOpen(First([@ EXCEPT !.readyState = "OPEN"], "open"))]
    /\ UNCHANGED <<prog, hist, accepting, measured, view>>

\* The handshake of a test socket fails, or its abort by close() is
\* reported: the socket is closing when the error event is delivered.
ProbeError(p) ==
    /\ probes[p].readyState \in {"CONNECTING", "ABORTING"}
    /\ probes' = [probes EXCEPT ![p] =
                    onProbeError(First([@ EXCEPT !.readyState = "CLOSING"], "error"))]
    /\ UNCHANGED <<prog, hist, accepting, measured, view>>

\* The close event of a test socket; the probe has no handler for it.
ProbeClose(p) ==
    /\ probes[p].readyState = "CLOSING"
    /\ probes' = [probes EXCEPT ![p].readyState = "CLOSED"]
    /\ UNCHANGED <<prog, hist, accepting, measured, view>>

\* The probe alone; the upstream may never answer a handshake.  The event
\* loop runs a pending timer callback, and a socket that is closing or was
\* aborted gets its error and close events.
ProbeInit == HubInit

ProbeNext ==
    \/ \E p \in ProbeIds, threw \in BOOLEAN : ProbeStart(p, threw)
    \/ \E p \in ProbeIds : ProbeTimeout(p)
    \/ \E p \in ProbeIds : ProbeOpen(p)
    \/ \E p \in ProbeIds : ProbeError(p)
    \/ \E p \in ProbeIds : ProbeClose(p)

ProbeFair ==
    \A p \in ProbeIds :
        /\ WF_vars(ProbeTimeout(p))
        /\ WF_vars(probes[p].readyState = "ABORTING" /\ ProbeError(p))
        /\ WF_vars(ProbeClose(p))

ProbeSpec == ProbeInit /\ [][ProbeNext]_vars /\ ProbeFair

\* The Connect button is rendered while not connected and enabled while not
\* connecting.
UiConnect ==
    /\ ~ui.neuroskyConnected /\ ~ui.isConnecting
    /\ Len(uiTimers) < MaxUiTimers
    /\ ui' = render(handleConnect(ui), deps(ui))
    /\ uiTimers' = Append(uiTimers, [neuroskyConnected |-> ui.neuroskyConnected,
                                     remaining |-> UiTimeout,
                                     connected |-> FALSE])
    /\ uiLast' = "handleConnect"
    /\ UNCHANGED <<prog, hist, accepting, measured, probes>>

\* The Disconnect button is rendered while connected.
UiDisconnect ==
    /\ ui.neuroskyConnected
    /\ ui' = render(handleDisconnect(ui), deps(ui))
    /\ uiLast' = "handleDisconnect"
    /\ UNCHANGED <<prog, hist, accepting, measured, probes, uiTimers>>

\* The websocket hook reports another adapter status: the component renders
\* with it.  Each pending timer remembers whether the adapter has been
\* connected since its click.
UiStatus(value) ==
    /\ value # ui.neuroskyConnected
    /\ ui' = render([ui EXCEPT !.neuroskyConnected = value], deps(ui))
    /\ uiTimers' = [i \in DOMAIN uiTimers |->
                      [uiTimers[i] EXCEPT !.connected = @ \/ value]]
    /\ uiLast' = "status"
    /\ UNCHANGED <<prog, hist, accepting, measured, probes>>

\* Time passes, one step of the clock.
UiTick ==
    /\ \E i \in DOMAIN uiTimers : uiTimers[i].remaining > 0
    /\ uiTimers' = [i \in DOMAIN uiTimers |->
                      [uiTimers[i] EXCEPT !.remaining = Max(0, @ - UiTimeout \div MaxTicks)]]
    /\ uiLast' = "tick"
    /\ UNCHANGED <<prog, hist, accepting, measured, probes, ui>>

\* The oldest timer is due and its callback runs.
UiTimeoutFires ==
    /\ uiTimers # <<>>
    /\ Head(uiTimers).remaining = 0
    /\ ui' = render(onConnectTimeout(ui, Head(uiTimers)), deps(ui))
    /\ uiTimers' = Tail(uiTimers)
    /\ uiLast' = IF Head(uiTimers).connected THEN "timeoutAfterConnected" ELSE "timeout"
    /\ UNCHANGED <<prog, hist, accepting, measured, probes>>

UiInit == HubInit

UiNext ==
    \/ UiConnect
    \/ UiDisconnect
    \/ \E value \in BOOLEAN : UiStatus(value)
    \/ UiTick
    \/ UiTimeoutFires

UiSpec == UiInit /\ [][UiNext]_vars

\* The quality map alone, over every level of the scale.
Measure(level) ==
    /\ measured' = [level |-> level, quality |-> signalQualityTimes200(level),
                    prevLevel |-> measured.level, prevQuality |-> measured.quality]
    /\ UNCHANGED <<prog, hist, accepting, probes, view>>

QualityInit == HubInit

QualityNext == \E level \in PoorSignalLevels : Measure(level)

QualitySpec == QualityInit /\ [][QualityNext]_vars

\* The generator alone, over the extremes of what a tick can read.
GenInit == HubInit

GenNext ==
    \/ EnableDemoMode
    \/ isDemoMode /\ Idle /\ Connect
    \/ Disconnect
    \/ \E i \in IntervalIds, x \in DemoInputs, blink \in BOOLEAN :
            DemoTick(i, DemoSums(x), blink)

GenSpec == GenInit /\ [][GenNext]_vars

\* ===================================================================
\* Properties
\* ===================================================================
EmittedTypes == {emitted[i].type : i \in DOMAIN emitted}
EmittedData == {emitted[i].data : i \in {j \in DOMAIN emitted : emitted[j].type = "data"}}
LiveSockets == {k \in SocketIds : readyState[k] \in {"CONNECTING", "OPEN"}}

\* C1: in every reachable state the sockets the adapter opened that are
\* connecting or open, plus its running generator timers, number at most 1.
C1_AtMostOneUpstream == Cardinality(LiveSockets) + Cardinality(intervals) <= 1

\* C2: after connect() has taken the demo path, the adapter is Connected and
\* the socket it holds is not open (the live connection was closed), and no
\* Reading comes from a socket while the generator runs.
C2_DemoSwitchClosesLive ==
    /\ (lastOp = "connect" /\ isDemoMode /\ demoInterval # Null) =>
          (isConnected /\ (socket = Null \/ readyState[socket] # "OPEN"))
    /\ (lastOp = "message" /\ readyState[lastId] = "OPEN" /\ isDemoMode /\ demoInterval # Null)
          => EmittedData = {}

\* C3: disconnect() is idempotent.  From every reachable state, a second
\* disconnect() changes nothing the first left; the first leaves the adapter
\* Disconnected with no socket, no generator timer and no reconnect timer;
\* and a disconnect() call emits nothing, no error included.
C3_DisconnectIdempotent ==
    LET d == disconnect(State) IN
    /\ disconnect(d) = d
    /\ ~d.isConnected /\ d.socket = Null /\ d.demoInterval = Null
    /\ d.reconnectInterval = Null /\ d.emitted = <<>>
    /\ lastOp \in DisconnectOps =>
          /\ disconnect(State) = State
          /\ ~isConnected /\ socket = Null /\ demoInterval = Null
          /\ reconnectInterval = Null /\ emitted = <<>>

\* C3 witness: disconnect() was called twice in a row on an adapter whose
\* connection it closed.
C3_Witness == lastOp = "disconnectAgain" /\ \E k \in SocketIds : readyState[k] = "CLOSING"

\* C4: a Reading emitted for a live message carries, in each field, the value
\* most recently observed for that field (0 included), 0 if never observed.
C4_ReadingIsLatestObserved ==
    lastOp = "message" =>
        \A r \in EmittedData :
            /\ ~r.isNull
            /\ r.attention = observed.attention
            /\ r.meditation = observed.meditation
            /\ r.signalQuality = observed.signalQuality

\* C5: once the caller has called disconnect() and until it calls connect()
\* again, no reconnect timer is pending and none fires (so the adapter opens
\* no socket and starts no generator of its own).
C5_NoAttemptAfterDisconnect ==
    callerDisconnected => (timeouts = {} /\ lastOp # "reconnect")

\* C6: after disableDemoMode() the adapter is fully torn down.
C6_DisableDemoModeTearsDown ==
    lastOp = "disableDemoMode" =>
        /\ ~isDemoMode /\ ~config.demoMode
        /\ intervals = {} /\ demoInterval = Null
        /\ LiveSockets = {} /\ socket = Null
        /\ timeouts = {} /\ reconnectInterval = Null
        /\ ~isConnected

\* C7: a subscriber is sent exactly one connection_status message, when it
\* connects and before any other message, carrying the adapter's connection
\* status and last Reading of that moment; none is sent at any other time.
C7_StatusOncePerSubscriber ==
    \A c \in WsIds :
        /\ statusCount[c] <= 1
        /\ wsReadyState[c] # "CLOSED" =>
              (statusCount[c] = 1 /\ firstMsg[c] = "connection_status")
        /\ (lastOp = "wsConnection" /\ lastId = c) =>
              sent[c] = <<Msg("connection_status", isConnected, currentData)>>
        /\ ~(lastOp = "wsConnection" /\ lastId = c) => CountStatus(sent[c]) = 0

\* C7 witness: a subscriber connected while the adapter was connected and had
\* a Reading.
C7_Witness == lastOp = "wsConnection" /\ isConnected /\ ~currentData.isNull

\* The events registerRoutes relays, and the payload of each.
Relayed ==
    SelectSeq(emitted, LAMBDA e : e.type \in {"connected", "disconnected", "data", "error"})
PayloadOf(e) ==
    Msg(CASE e.type = "connected" -> "neurosky_connected"
          [] e.type = "disconnected" -> "neurosky_disconnected"
          [] e.type = "data" -> "eeg_data"
          [] OTHER -> "neurosky_error",
        FALSE, e.data)
IsReceiver(c) == c \in clients /\ wsReadyState[c] = "OPEN"
Payloads(c) == SelectSeq(sent[c], LAMBDA m : m.type # "connection_status")

\* C8: a handler's broadcasts reach every subscriber that is in the set and
\* open with the same payloads, those of the events emitted, in order; a
\* subscriber that is not open, or no longer in the set, receives nothing.
C8_BroadcastSamePayload ==
    \A c \in WsIds :
        IF IsReceiver(c)
        THEN /\ Len(Payloads(c)) = Len(Relayed)
             /\ \A i \in 1..Len(Relayed) : Payloads(c)[i] = PayloadOf(Relayed[i])
        ELSE sent[c] = <<>>

\* C8 witness: one event was broadcast to two open subscribers while a third,
\* which had disconnected, was still in the set.
C8_Witness ==
    \E c, d, e \in WsIds :
        /\ c # d /\ IsReceiver(c) /\ IsReceiver(d)
        /\ sent[c] # <<>> /\ sent[c] = sent[d]
        /\ e \in clients /\ wsReadyState[e] = "CLOSING" /\ sent[e] = <<>>

\* C9: when a live connect() attempt fails before the handshake completes, an
\* error event is emitted and the promise connect() returned is rejected.
C9_FailedConnectRejects ==
    lastOp = "connectFail" =>
        ("error" \in EmittedTypes /\ promise[lastId] = "rejected")

\* C10: with auto-reconnect enabled every close event of a socket leaves
\* exactly one reconnect timer pending, with the fixed delay, held in
\* reconnectInterval; the timer fires once; and at most one reconnect timer is
\* ever pending.
C10_OneReconnectPerDrop ==
    /\ Cardinality(timeouts) <= 1
    /\ \A x \in timeouts :
          config.autoConnect /\ x.id = reconnectInterval /\ x.delay = ReconnectDelay
    /\ (config.autoConnect /\ lastOp \in {"close", "connectFail", "aborted"}) =>
          timeouts = {[id |-> reconnectInterval, delay |-> ReconnectDelay]}
    /\ lastOp = "reconnect" => timeouts = {}

\* C10 witness: with auto-reconnect enabled, a second socket dropped after an
\* earlier socket had dropped, and a reconnect timer is pending.
C10_Witness ==
    /\ config.autoConnect /\ lastOp = "close" /\ lastId = 2 /\ timeouts # {}
    /\ promise[1] # "none" /\ readyState[1] = "CLOSED"

\* C11: with auto-reconnect disabled, after a failure or drop of the
\* connection no reconnect timer is ever scheduled and the adapter opens no
\* connection of its own; it stays Disconnected until the caller calls
\* connect() again.
C11_NoReconnectWhenAutoConnectOff ==
    ~config.autoConnect =>
        /\ timeouts = {} /\ reconnectInterval = Null /\ lastOp # "reconnect"
        /\ dropped => ~isConnected

\* C12: with auto-reconnect enabled and no disconnect() by the caller, if the
\* upstream from some point on always accepts connections, then after every
\* drop or failed attempt the adapter is eventually Connected again; attempts
\* are not capped: every failed attempt is followed by another one.
C12_EventuallyReconnected ==
    /\ (<>[]accepting) => ((lastOp \in {"close", "connectFail"}) ~> isConnected)
    /\ (lastOp = "connectFail") ~> (lastOp = "reconnect")

\* C12 witness: the handshake of a reconnect attempt completed after the
\* connection had dropped and an attempt had failed.
C12_Witness ==
    /\ lastOp = "open" /\ isConnected /\ dropped /\ accepting
    /\ promise[1] # "none" /\ promise[2] # "none" /\ lastId = 1

\* C13: from a Disconnected adapter, enableDemoMode() then connect() sets
\* Connected and emits connected, relayed to the open subscribers, and leaves
\* the generator running; every tick of the generator, the first included,
\* emits a Reading with signalQuality in [60, 100] that is broadcast as
\* eeg_data to the open subscribers.
C13_DemoConnectThenTick ==
    /\ (lastOp = "connect" /\ isDemoMode) =>
          /\ isConnected /\ emitted = <<Event("connected", NullData)>>
          /\ demoInterval \in intervals
          /\ \A c \in WsIds : IsReceiver(c) =>
                sent[c] = <<Msg("neurosky_connected", FALSE, NullData)>>
    /\ lastOp = "tick" =>
          /\ emitted # <<>> /\ emitted[1] = Event("data", currentData)
          /\ currentData.signalQuality \in 60..100
          /\ \A c \in WsIds : IsReceiver(c) =>
                sent[c] = <<Msg("eeg_data", FALSE, currentData)>>

\* C13 witness: the first tick after the demo-path connect() reached an open
\* subscriber, which had got neurosky_connected before.
C13_Witness ==
    /\ lastOp = "tick" /\ isDemoMode /\ isConnected
    /\ \E c \in WsIds :
          /\ IsReceiver(c) /\ firstMsg[c] = "connection_status"
          /\ sent[c] = <<Msg("eeg_data", FALSE, currentData)>>
          /\ \E d \in WsIds : d # c /\ IsReceiver(d)

\* C14: the quality map max(0, 100 - level * 100 / 200) is strictly
\* decreasing over the levels 0..200, maps 0 to 100 and 200 to 0, and every
\* quality is in [0, 100].
C14_QualityMap ==
    /\ measured.quality \in 0..(100 * 200)
    /\ measured.level = 0 => measured.quality = 100 * 200
    /\ measured.level = 200 => measured.quality = 0
    /\ measured.prevLevel < measured.level => measured.prevQuality > measured.quality

\* C14 witness: the two highest levels, one after the other: qualities one
\* half and 0.
C14_Witness ==
    /\ measured.prevLevel = 199 /\ measured.level = 200
    /\ measured.prevQuality = 100 /\ measured.quality = 0

\* C15: every Reading the generator emits has attention and meditation in
\* [0, 100] and signalQuality in [60, 100], all integers, whatever the clock
\* and the random values of the tick.
C15_GeneratorRanges ==
    lastOp = "tick" =>
        /\ EmittedData = {currentData}
        /\ currentData.attention \in 0..100
        /\ currentData.meditation \in 0..100
        /\ currentData.signalQuality \in 60..100

\* C15 witness: a tick whose attention sum was below 0 and was clamped, with
\* the highest meditation and the lowest signal quality the sums reach.
C15_Witness ==
    /\ lastOp = "tick"
    /\ currentData = Reading(0, 91, 73)

\* The events of one type among those the last handler emitted.
EmittedOf(type) == SelectSeq(emitted, LAMBDA e : e.type = type)

\* C16: a live message emits a Reading if and only if it carries an attention
\* or meditation value (eSense) or a poor-signal level; a message carrying
\* none emits no Reading and leaves the last Reading unchanged; a blink
\* indicator and a raw-sample field each emit one event of their own, and
\* nothing else is emitted.
C16_ReadingIffCarried ==
    [][(lastOp' = "message" /\ ~lastMessage'.malformed) =>
        LET m == lastMessage'
            carries == \/ m.hasESense /\ (m.attention # Undef \/ m.meditation # Undef)
                       \/ m.poorSignalLevel # Undef
        IN  /\ carries => EmittedOf("data")' = <<Event("data", currentData')>>
            /\ ~carries => EmittedOf("data")' = <<>> /\ currentData' = currentData
            /\ Len(EmittedOf("blink")') = IF m.blinkStrength # Undef THEN 1 ELSE 0
            /\ Len(EmittedOf("rawEeg")') = IF m.rawEeg # Undef THEN 1 ELSE 0
            /\ EmittedTypes' \subseteq {"data", "blink", "rawEeg"}]_vars

\* C17: a message that cannot be read is dropped: the connection status, the
\* socket, the timers and the last Reading are as before, and no event is
\* emitted or relayed.
C17_MalformedDropped ==
    [][(lastOp' = "message" /\ lastMessage'.malformed) =>
        /\ UNCHANGED <<socket, isConnected, reconnectInterval, currentData, demoInterval,
                       isDemoMode, config, readyState, timeouts, intervals, clients,
                       wsReadyState>>
        /\ emitted' = <<>>
        /\ \A c \in WsIds : sent'[c] = <<>>]_vars

\* C17 witness: a message that cannot be read arrived on the open socket of a
\* connected adapter that holds a Reading.
C17_Witness ==
    /\ lastOp = "message" /\ lastMessage.malformed
    /\ isConnected /\ socket = lastId /\ readyState[lastId] = "OPEN"
    /\ ~currentData.isNull

\* C18: a broadcast never changes the subscriber set: only a subscriber's
\* own connection, close or error event adds or removes it, and only itself.  A
\* subscriber of the set that is not open is skipped, receives nothing and
\* stays in the set until its own close or error event; the open subscribers
\* of the set receive every relayed event of the step.
C18_BroadcastKeepsSubscribers ==
    [][/\ clients' # clients =>
            /\ lastOp' \in {"wsConnection", "wsClose", "wsError"}
            /\ (clients' \ clients) \cup (clients \ clients') = {lastId'}
       /\ \A c \in clients :
            (wsReadyState[c] # "OPEN" /\ ~(lastOp' \in {"wsClose", "wsError"} /\ lastId' = c))
                => c \in clients' /\ sent'[c] = <<>>
       /\ \A c \in clients' :
            wsReadyState'[c] = "OPEN" => Len(Payloads(c)') = Len(Relayed')]_vars

\* C18 witness: an event was relayed to an open subscriber while another
\* subscriber of the set, no longer open, got nothing and is still in the set.
C18_Witness ==
    /\ Relayed # <<>>
    /\ \E c, d \in clients :
          /\ wsReadyState[c] = "OPEN" /\ Payloads(c) # <<>>
          /\ wsReadyState[d] = "CLOSING" /\ sent[d] = <<>>

\* C19: for every emitted Reading and every session active when it is
\* emitted, one persistence request is made, carrying the session id, the
\* Reading's attention, meditation and signalQuality and the Reading as raw
\* payload, whether or not the request for another session fails.  Stated for
\* a listener invocation that has ended after its session query resolved.
C19_RequestPerActiveSession ==
    lastOp \in {"storeDone", "addRejected"} =>
        \A i \in DOMAIN lastJob.sessions :
            Cardinality({r \in DOMAIN lastJob.requests :
                lastJob.requests[r] = Request(lastJob.sessions[i], lastJob.data)}) = 1

\* C20: a failure of the active-session query or of a persistence request is
\* isolated: the adapter's status and last Reading, its socket and timers and
\* the subscriber set are unchanged, no event is emitted or relayed, and the
\* listener invocation ends without another request, the other invocations
\* untouched; every Reading is broadcast as eeg_data to the open subscribers
\* when it is emitted, whatever the store does then or did before.
C20_StoreFailureIsolated ==
    [][/\ lastOp' \in {"queryRejected", "addRejected"} =>
            /\ UNCHANGED <<socket, isConnected, reconnectInterval, currentData,
                           demoInterval, isDemoMode, config, readyState, timeouts,
                           intervals, clients, wsReadyState, activeSessions>>
            /\ emitted' = <<>>
            /\ \A c \in WsIds : sent'[c] = <<>>
            /\ jobs' = RemoveAt(jobs, lastId')
       /\ (lastOp' = "message" /\ EmittedOf("data")' # <<>>) =>
            \A c \in clients' :
                wsReadyState'[c] = "OPEN" => sent'[c] = <<Msg("eeg_data", FALSE, currentData')>>
      ]_vars

\* C20 witness: the first persistence request of a Reading failed, with two
\* sessions active, an open subscriber that had received the Reading, and
\* the adapter still connected and holding that Reading.
C20_Witness ==
    /\ lastOp = "addRejected" /\ Len(lastJob.sessions) = 2 /\ lastJob.next = 1
    /\ isConnected /\ currentData = lastJob.data
    /\ \E c \in clients : wsReadyState[c] = "OPEN"
    /\ \E c \in clients : wsReadyState[c] = "CLOSING"

\* C21: checkThinkGearConnector always ends by resolving, once, with a
\* boolean, and never rejects: true exactly when the test socket opened before
\* the timeout and before any error, false on error, timeout or a failed
\* construction; and whatever the outcome the test socket is closed: it is
\* neither connecting nor open once the promise is settled, and its close
\* event follows.
C21_ProbeResolvesAndCloses ==
    /\ [](\A p \in ProbeIds :
            /\ probes[p].promise \in {"none", "pending", "true", "false"}
            /\ probes[p].promise = "true" <=> probes[p].first = "open"
            /\ probes[p].promise = "false" <=> probes[p].first \in {"error", "timeout", "threw"}
            /\ probes[p].promise \in {"true", "false"} =>
                  probes[p].readyState \notin {"CONNECTING", "OPEN"})
    /\ [][\A p \in ProbeIds :
            probes[p].promise \in {"true", "false"} => probes'[p].promise = probes[p].promise]_vars
    /\ \A p \in ProbeIds :
            (probes[p].promise = "pending") ~> (probes[p].promise \in {"true", "false"})
    /\ \A p \in ProbeIds :
            (probes[p].promise \in {"true", "false"}) ~> (probes[p].readyState = "CLOSED")

\* C21 witness: one probe resolved true and its socket has closed, another
\* timed out and then got the error of its aborted handshake, a third failed
\* before the timeout.
C21_Witness ==
    \E p, q, r \in ProbeIds :
        /\ probes[p].promise = "true" /\ probes[p].readyState = "CLOSED"
        /\ probes[q].first = "timeout" /\ probes[q].resolves = 2
        /\ probes[r].first = "error" /\ probes[r].promise = "false"

\* C22: after disconnect() has returned and until connect() is called again,
\* the adapter emits no Reading, and none is broadcast as eeg_data or handed
\* to the store.
C22_NoReadingAfterDisconnect ==
    callerDisconnected =>
        /\ EmittedOf("data") = <<>>
        /\ \A c \in WsIds : \A i \in DOMAIN sent[c] : sent[c][i].type # "eeg_data"
        /\ jobs = <<>>

\* The adapter's current upstream is active: the socket it holds has
\* completed the handshake and has not closed, or the generator timer it
\* holds is running.
UpstreamActive ==
    \/ socket # Null /\ readyState[socket] \in {"OPEN", "CLOSING"}
    \/ demoInterval # Null /\ demoInterval \in intervals

\* C23: getConnectionStatus() is true if and only if the current upstream
\* is active.  Stated in the direction the claim singles out: whenever the
\* current upstream is active the status is true, so the close event of a
\* socket the adapter no longer holds leaves the status of the newer
\* connection as it is.
C23_StatusIffUpstreamActive ==
    UpstreamActive => isConnected

\* C24: whenever the connection status goes from connected to disconnected,
\* by a socket close, disconnect() or disableDemoMode(), in demo mode as in
\* live mode, a disconnected event is emitted and neurosky_disconnected is
\* broadcast to every open subscriber.
C24_DisconnectedAnnounced ==
    [][(isConnected /\ ~isConnected') =>
        /\ "disconnected" \in EmittedTypes'
        /\ \A c \in clients' :
              wsReadyState'[c] = "OPEN" =>
                  \E i \in DOMAIN sent'[c] : sent'[c][i].type = "neurosky_disconnected"]_vars

\* C25: the timeout error of the DeviceStatus view is set only when the
\* adapter has not connected within the ten seconds: the view never shows a
\* connection error while neuroskyConnected is true.
C25_NoTimeoutErrorWhileConnected ==
    ui.neuroskyConnected => ui.connectionError = ""

\* C26: disconnect() sets the runtime demo flag to false and leaves the
\* configured demoMode as it is; only enableDemoMode() sets the flag again;
\* and a connect() made while the flag is false opens a new socket and
\* starts no generator.  So after enableDemoMode(), connect(), disconnect()
\* the next connect() is a live one unless enableDemoMode() came between.
C26_DisconnectResetsDemoFlag ==
    [][/\ lastOp' \in DisconnectOps => ~isDemoMode' /\ config' = config
       /\ (~isDemoMode /\ isDemoMode') => lastOp' = "enableDemoMode"
       /\ (lastOp' = "connect" /\ ~isDemoMode) =>
              /\ socket' # Null /\ socket' # socket
              /\ readyState[socket'] = "CLOSED"
              /\ readyState'[socket'] = "CONNECTING"
              /\ intervals' = intervals /\ demoInterval' = demoInterval]_vars

\* C26 witness: demo mode is still configured, a disconnect() has cleared
\* the runtime flag, and the connect() after it opened a socket while no
\* generator runs.
C26_Witness ==
    /\ lastOp = "connect" /\ config.demoMode /\ ~isDemoMode
    /\ socket # Null /\ readyState[socket] = "CONNECTING"
    /\ demoInterval = Null /\ intervals = {}

====
